---- MODULE Spec2Model ----
(***************************************************************************)
(* A model of the web-search MCP server (src/src/index.ts).  The file      *)
(* holds two variants of the server:                                       *)
(*   variant 1 (lines 1-184):   a low-level Server whose CallTool handler  *)
(*                              validates with isValidSearchArgs and       *)
(*                              clamps the limit with Math.min;            *)
(*   variant 2 (lines 186-374): an McpServer with two registered tools,    *)
(*                              "add" and "search", validated by zod, and  *)
(*                              a performSearch that seeds its result      *)
(*                              array with a fixed record.                 *)
(* A call runs synchronously up to `await axios.get(...)`, is suspended    *)
(* there, and on resolution runs the extraction loop and returns.          *)
(*                                                                         *)
(* Strings that the code inspects (titles, urls, snippets) are sequences   *)
(* of pieces; the four letters of "http" are always separate pieces, so    *)
(* startsWith('http') is a real prefix test.  JavaScript values at the     *)
(* untyped boundary are tagged records.                                    *)
(***************************************************************************)
EXTENDS Integers, Sequences, FiniteSets, TLC

VARIABLES
    request,      \* per call: the variant that serves it, the tool name, the arguments
    pc,           \* per call: "idle", "fetching" (suspended at await), "succeeded", "failed"
    env,          \* per call: performSearch's parameters (query, limit)
    response,     \* per call: response.data once the fetch has resolved
    results,      \* per call: the array performSearch returned
    reply,        \* per call: the error code, the tool that answered, add's sum
    fetchCount,   \* per call: outbound axios.get calls issued
    searchCalls,  \* per call: invocations of performSearch
    probe         \* per call: block indices whose elements were queried / pushed

vars == <<request, pc, env, response, results, reply, fetchCount, searchCalls,
          probe>>

----------------------------------------------------------------------------
(* Bounds of the model *)

MaxBlocks == 3

NumCalls == 2

(* Program constants *)

DefaultLimit == 5

MaxLimit == 10

ZodMinLimit == 1

ZodMaxLimit == 10

----------------------------------------------------------------------------
(* JavaScript values at the call boundary *)

Undefined == [t |-> "undefined"]

Null == [t |-> "null"]

Num(n) == [t |-> "number", n |-> n]

StrV(s) == [t |-> "string", s |-> s]

Obj(q, l, a, b) == [t |-> "object", query |-> q, limit |-> l, a |-> a, b |-> b]

\* typeof: null is an object
TypeOf(v) == IF v.t = "null" THEN "object" ELSE v.t

\* truthiness of a value used on the left of `||`
Truthy(v) ==
    CASE v.t = "number" -> v.n # 0
      [] v.t = "string" -> v.s # <<>>
      [] v.t = "object" -> TRUE
      [] OTHER -> FALSE

MathMin(x, y) == IF x <= y THEN x ELSE y

----------------------------------------------------------------------------
(* Text *)

Http == <<"h", "t", "t", "p">>

StartsWith(s, prefix) ==
    /\ Len(s) >= Len(prefix)
    /\ SubSeq(s, 1, Len(prefix)) = prefix

\* cheerio's .text() of a selection: the texts of its elements, concatenated
RECURSIVE Text(_)
Text(sel) == IF sel = <<>> THEN <<>> ELSE Head(sel) \o Text(Tail(sel))

\* cheerio's .attr('href') of a selection: the attribute of its first element
AttrHref(sel) == IF sel = <<>> THEN Undefined ELSE Head(sel)

----------------------------------------------------------------------------
(* The fetched document: the sequence of its div.g blocks in document      *)
(* order.  A block holds the texts of its h3 elements, the href of each of *)
(* its anchors (Undefined for an anchor without href) and the texts of its *)
(* .VwiC3b elements.                                                       *)

Block(h3, a, snippet) == [h3 |-> h3, a |-> a, snippet |-> snippet]

UrlA == Http \o <<"://a">>

UrlB == Http \o <<"s", "://b">>

GoodA == Block(<< <<"A">> >>, <<StrV(UrlA)>>, << <<"sa">> >>)

GoodB == Block(<< <<"B">>, <<"b">> >>, <<StrV(UrlB), StrV(<<"/rel">>)>>, <<>>)

EmptyHeading == Block(<< <<>> >>, <<StrV(UrlA)>>, << <<"se">> >>)

NoHeading == Block(<<>>, <<StrV(UrlB)>>, <<>>)

NoAnchor == Block(<< <<"A">> >>, <<>>, << <<"sn">> >>)

RelativeFirst == Block(<< <<"B">> >>, <<StrV(<<"/search">>), StrV(UrlA)>>, <<>>)

NoHrefAttr == Block(<< <<"A">> >>, <<Undefined>>, <<>>)

ShortHref == Block(<< <<"B">> >>, <<StrV(<<"h", "t", "t">>)>>, <<>>)

Blocks == {GoodA, GoodB, EmptyHeading, NoHeading, NoAnchor, RelativeFirst,
           NoHrefAttr, ShortHref}

Docs == UNION {[1..n -> Blocks] : n \in 0..MaxBlocks}

----------------------------------------------------------------------------
(* performSearch, after the fetch has resolved *)

SearchResult(title, url, description) ==
    [title |-> title, url |-> url, description |-> description]

\* the record variant 2 pushes before the loop
Placeholder ==
    SearchResult(<<"titleElement">>, Http \o <<"://localhost">>,
                 <<"snippetElement.text()">>)

\* const results: SearchResult[] = [] (and variant 2's push)
InitialResults(variant) == IF variant = 2 THEN <<Placeholder>> ELSE <<>>

\* the guard off by one: i > limit
StopAtOffByOne(i, limit) == i > limit

\* if (i >= limit) return false
StopAt(i, limit) == i >= limit

\* titleElement.length && linkElement.length && url?.startsWith('http')
Accepts(el) ==
    LET url == AttrHref(el.a)
    IN  /\ Len(el.h3) # 0
        /\ Len(el.a) # 0
        /\ url # Undefined
        /\ StartsWith(url.s, Http)

\* the record pushed for an accepted block; snippet text || ''
RecordOf(el) == SearchResult(Text(el.h3), AttrHref(el.a).s, Text(el.snippet))

\* $('div.g').each((i, element) => ...): i counts blocks from 0
RECURSIVE Each(_, _, _, _)
Each(doc, limit, i, acc) ==
    IF i >= Len(doc) \/ StopAt(i, limit) THEN acc
    ELSE LET el == doc[i + 1]
             seen == [acc EXCEPT !.examined = @ \cup {i}]
         IN  IF Accepts(el)
             THEN Each(doc, limit, i + 1,
                       [seen EXCEPT !.results = Append(@, RecordOf(el)),
                                    !.pushedAt = @ \cup {i}])
             ELSE Each(doc, limit, i + 1, seen)

Extract(variant, doc, limit) ==
    Each(doc, limit, 0,
         [results |-> InitialResults(variant), examined |-> {}, pushedAt |-> {}])

----------------------------------------------------------------------------
(* Validation *)

\* isValidSearchArgs without its test of query
isValidSearchArgsNoQuery(args) ==
    /\ TypeOf(args) = "object"
    /\ args # Null
    /\ (args.limit = Undefined \/ TypeOf(args.limit) = "number")

\* variant 1: isValidSearchArgs
isValidSearchArgs(args) ==
    /\ TypeOf(args) = "object"
    /\ args # Null
    /\ TypeOf(args.query) = "string"
    /\ (args.limit = Undefined \/ TypeOf(args.limit) = "number")

\* variant 2: the zod input schema of the "search" tool
ZodSearchInput(args) ==
    /\ args.t = "object"
    /\ args.query.t = "string"
    /\ \/ args.limit = Undefined
       \/ /\ args.limit.t = "number"
          /\ args.limit.n >= ZodMinLimit
          /\ args.limit.n <= ZodMaxLimit

\* variant 2: the zod input schema of the "add" tool
ZodAddInput(args) ==
    /\ args.t = "object"
    /\ args.a.t = "number"
    /\ args.b.t = "number"

\* limit || 5
LimitOrDefault(limit) == IF Truthy(limit) THEN limit.n ELSE DefaultLimit

\* the limit without Math.min(..., 10)
LimitUnclamped(limit) == LimitOrDefault(limit)

\* variant 1: Math.min(request.params.arguments.limit || 5, 10)
ClampLimit(limit) == MathMin(LimitOrDefault(limit), MaxLimit)

\* what the McpServer dispatcher raises for a name that is not registered:
\* decided by the SDK, not by this repository
UnknownToolErrors == {"MethodNotFound", "InvalidParams"}

----------------------------------------------------------------------------
(* The calls *)

NoRequest == [variant |-> 0, name |-> "", args |-> Undefined]

NoEnv == [query |-> Undefined, limit |-> 0]

NoReply == [error |-> "none", tool |-> "none", sum |-> 0]

NoProbe == [examined |-> {}, pushedAt |-> {}]

\* calls are numbered in the order they arrive
Arrives(c) ==
    /\ pc[c] = "idle"
    /\ \A d \in DOMAIN pc : d < c => pc[d] # "idle"

\* throw new McpError(code, ...)
Throw(c, req, code) ==
    /\ request' = [request EXCEPT ![c] = req]
    /\ pc' = [pc EXCEPT ![c] = "failed"]
    /\ reply' = [reply EXCEPT ![c] = [error |-> code, tool |-> "none", sum |-> 0]]
    /\ UNCHANGED <<env, response, results, fetchCount, searchCalls, probe>>

\* performSearch(query, limit) up to `await axios.get(...)`
performSearch(c, req, query, limit) ==
    /\ request' = [request EXCEPT ![c] = req]
    /\ env' = [env EXCEPT ![c] = [query |-> query, limit |-> limit]]
    /\ searchCalls' = [searchCalls EXCEPT ![c] = @ + 1]
    /\ fetchCount' = [fetchCount EXCEPT ![c] = @ + 1]
    /\ pc' = [pc EXCEPT ![c] = "fetching"]
    /\ UNCHANGED <<response, results, reply, probe>>

\* the handler without its test of the name
IsAnyTool(name) == TRUE

\* variant 1: request.params.name !== 'search' is refused
IsSearchTool(name) == name = "search"

\* variant 1: the CallToolRequestSchema handler
CallToolV1(c, name, args) ==
    LET req == [variant |-> 1, name |-> name, args |-> args]
    IN  /\ Arrives(c)
        /\ IF ~IsSearchTool(name)
           THEN Throw(c, req, "MethodNotFound")
           ELSE IF ~isValidSearchArgs(args)
           THEN Throw(c, req, "InvalidParams")
           ELSE performSearch(c, req, args.query, ClampLimit(args.limit))

\* variant 2: McpServer's dispatch to the tools configureServer registered
CallToolV2(c, name, args) ==
    LET req == [variant |-> 2, name |-> name, args |-> args]
    IN  /\ Arrives(c)
        /\ IF name = "search"
           THEN IF ~ZodSearchInput(args)
                THEN Throw(c, req, "InvalidParams")
                ELSE performSearch(c, req, args.query, LimitOrDefault(args.limit))
           ELSE IF name = "add"
           THEN IF ~ZodAddInput(args)
                THEN Throw(c, req, "InvalidParams")
                ELSE /\ request' = [request EXCEPT ![c] = req]
                     /\ pc' = [pc EXCEPT ![c] = "succeeded"]
                     /\ reply' = [reply EXCEPT ![c] =
                           [error |-> "none", tool |-> "add",
                            sum |-> args.a.n + args.b.n]]
                     /\ UNCHANGED <<env, response, results, fetchCount,
                                    searchCalls, probe>>
           ELSE \E code \in UnknownToolErrors : Throw(c, req, code)

\* a `limit` kept in one module-level variable: the latest call's
ResumeLimitShared(c) ==
    LET arrived == {d \in DOMAIN pc : pc[d] # "idle"}
    IN  env[CHOOSE d \in arrived : \A e \in arrived : e <= d].limit

\* the `limit` the resumed invocation reads: its own parameter
ResumeLimit(c) == env[c].limit

\* the fetch resolves with `data`; the loop runs and the handler returns
FetchResolve(c, data) ==
    /\ pc[c] = "fetching"
    /\ LET out == Extract(request[c].variant, data, ResumeLimit(c))
       IN  /\ response' = [response EXCEPT ![c] = data]
           /\ results' = [results EXCEPT ![c] = out.results]
           /\ probe' = [probe EXCEPT ![c] =
                 [examined |-> out.examined, pushedAt |-> out.pushedAt]]
    /\ reply' = [reply EXCEPT ![c] = [error |-> "none", tool |-> "search", sum |-> 0]]
    /\ pc' = [pc EXCEPT ![c] = "succeeded"]
    /\ UNCHANGED <<request, env, fetchCount, searchCalls>>

\* the fetch rejects; the rejection propagates out of the handler
FetchReject(c) ==
    /\ pc[c] = "fetching"
    /\ reply' = [reply EXCEPT ![c] = [error |-> "FetchError", tool |-> "none", sum |-> 0]]
    /\ pc' = [pc EXCEPT ![c] = "failed"]
    /\ UNCHANGED <<request, env, response, results, fetchCount, searchCalls, probe>>

----------------------------------------------------------------------------
(* The inputs *)

ToolNames == {"search", "add", "fetch"}

Queries == {<<"q1">>, <<"q2">>}

LimitNumbers == {-1, 0, 1, 2, 3, 10, 11}

SearchArgs ==
    {Obj(q, l, Undefined, Undefined) :
        q \in {Undefined, Num(7), StrV(<<"q1">>)},
        l \in {Undefined, Null, StrV(<<"5">>)} \cup {Num(n) : n \in LimitNumbers}}

AddArgs ==
    {Obj(Undefined, Undefined, a, b) :
        a \in {Undefined, Num(1), StrV(<<"1">>)}, b \in {Undefined, Num(2)}}

Args ==
    SearchArgs \cup AddArgs
        \cup {Undefined, Null, StrV(<<"q1">>), Obj(StrV(<<"q2">>), Num(2), Num(1), Num(2))}

InitCalls(ids) ==
    /\ request = [c \in ids |-> NoRequest]
    /\ pc = [c \in ids |-> "idle"]
    /\ env = [c \in ids |-> NoEnv]
    /\ response = [c \in ids |-> <<>>]
    /\ results = [c \in ids |-> <<>>]
    /\ reply = [c \in ids |-> NoReply]
    /\ fetchCount = [c \in ids |-> 0]
    /\ searchCalls = [c \in ids |-> 0]
    /\ probe = [c \in ids |-> NoProbe]

(* One call, any arguments, any page *)

Init == InitCalls({1})

CallV1 == Arrives(1) /\ \E name \in ToolNames, args \in Args : CallToolV1(1, name, args)

CallV2 == Arrives(1) /\ \E name \in ToolNames, args \in Args : CallToolV2(1, name, args)

Resolve == pc[1] = "fetching" /\ \E data \in Docs : FetchResolve(1, data)

Reject == FetchReject(1)

Next == CallV1 \/ CallV2 \/ Resolve \/ Reject

Spec == Init /\ [][Next]_vars

(* Several calls in flight at once.  The page served for a query carries   *)
(* the query in every title and url, so that a record can be traced to the *)
(* call it was fetched for.                                                *)

Hit(q, k) ==
    Block(<<q \o <<k>> >>, <<StrV(Http \o <<"://">> \o q \o <<k>>)>>, << <<"s">> \o q >>)

PagesFor(q) ==
    {<<Hit(q, "1"), Hit(q, "2"), Hit(q, "3")>>,
     <<NoAnchor, Hit(q, "1"), Hit(q, "2")>>}

ConcLimits == {1, 2}

ConcArgs == {Obj(StrV(q), Num(l), Undefined, Undefined) : q \in Queries, l \in ConcLimits}

CallIds == 1..NumCalls

InitConc == InitCalls(CallIds)

ConcCallV1 ==
    \E c \in CallIds : Arrives(c) /\ \E args \in ConcArgs : CallToolV1(c, "search", args)

ConcCallV2 ==
    \E c \in CallIds : Arrives(c) /\ \E args \in ConcArgs : CallToolV2(c, "search", args)

ConcResolve ==
    \E c \in CallIds :
        /\ pc[c] = "fetching"
        /\ \E data \in PagesFor(env[c].query.s) : FetchResolve(c, data)

ConcReject == \E c \in CallIds : FetchReject(c)

NextConc == ConcCallV1 \/ ConcCallV2 \/ ConcResolve \/ ConcReject

SpecConc == InitConc /\ [][NextConc]_vars

----------------------------------------------------------------------------
(* Vocabulary of the properties *)

SearchSucceeded(c) == pc[c] = "succeeded" /\ reply[c].tool = "search"

Handled(c) == pc[c] # "idle"

RECURSIVE IsSubSeq(_, _)
IsSubSeq(s, t) ==
    IF s = <<>> THEN TRUE
    ELSE IF t = <<>> THEN FALSE
    ELSE IF Head(s) = Head(t) THEN IsSubSeq(Tail(s), Tail(t))
    ELSE IsSubSeq(s, Tail(t))

Records(blocks) == [i \in 1..Len(blocks) |-> RecordOf(blocks[i])]

FirstBlocks(doc, n) == SubSeq(doc, 1, IF n < Len(doc) THEN n ELSE Len(doc))

\* a block as the specification accepts it: a heading with text and a first
\* anchor whose href begins with http
WellFormed(b) ==
    /\ Len(b.h3) # 0
    /\ Text(b.h3) # <<>>
    /\ Len(b.a) # 0
    /\ Head(b.a) # Undefined
    /\ StartsWith(Head(b.a).s, Http)

\* the records a call extracted from blocks: all of them but the record
\* variant 2 puts first
Extracted(c) ==
    IF request[c].variant = 2 THEN Tail(results[c]) ELSE results[c]

----------------------------------------------------------------------------
(* C1: for every search call that succeeds, the number of returned records *)
(* is at most the effective limit, and the effective limit is at most 10.  *)
C1_LengthWithinEffectiveLimit ==
    \A c \in DOMAIN pc :
        SearchSucceeded(c) =>
            /\ Len(results[c]) <= env[c].limit
            /\ env[c].limit <= 10

(* C2: every returned record has a non-empty title and a url that begins   *)
(* with "http", and only blocks with a heading that has text and a first   *)
(* anchor whose href begins with "http" contribute records.                *)
C2_RecordsWellFormed ==
    \A c \in DOMAIN pc :
        SearchSucceeded(c) =>
            /\ \A i \in 1..Len(results[c]) :
                  /\ results[c][i].title # <<>>
                  /\ StartsWith(results[c][i].url, Http)
            /\ IsSubSeq(results[c], Records(SelectSeq(response[c], WellFormed)))

(* C3: with N well-formed blocks and N > limit, exactly limit records are  *)
(* returned, those of the first limit well-formed blocks; rejected blocks  *)
(* among them do not count toward the limit.                               *)
C3_ExactlyLimitAcceptedRecords ==
    \A c \in DOMAIN pc :
        SearchSucceeded(c) =>
            LET wellFormed == SelectSeq(response[c], WellFormed)
                limit == env[c].limit
            IN  (limit >= 0 /\ Len(wellFormed) > limit) =>
                    results[c] = Records(SubSeq(wellFormed, 1, limit))

(* C4: the returned records are an order-preserving subsequence of the     *)
(* records of the accepted blocks of the document.                         *)
C4_OrderPreservingSubsequence ==
    \A c \in DOMAIN pc :
        SearchSucceeded(c) =>
            IsSubSeq(results[c], Records(SelectSeq(response[c], Accepts)))

(* C5: a "search" call whose arguments are not an object with a string     *)
(* query, or whose limit is present but not a number, fails with           *)
(* InvalidParams and issues no fetch.                                      *)
C5_InvalidArgsRejectedBeforeFetch ==
    \A c \in DOMAIN pc :
        LET args == request[c].args
            invalid ==
                \/ args.t # "object"
                \/ args.query.t # "string"
                \/ args.limit.t \notin {"undefined", "number"}
        IN  (Handled(c) /\ request[c].name = "search" /\ invalid) =>
                /\ pc[c] = "failed"
                /\ reply[c].error = "InvalidParams"
                /\ fetchCount[c] = 0

C5_Witness ==
    \E c \in DOMAIN pc :
        /\ request[c].variant = 1
        /\ request[c].name = "search"
        /\ request[c].args.t = "object"
        /\ request[c].args.query = Undefined
        /\ request[c].args.limit = Num(2)
        /\ pc[c] = "failed"
        /\ reply[c].error = "InvalidParams"
        /\ fetchCount[c] = 0

C7_LimitPassedToExtractor ==
    \A c \in DOMAIN pc :
        searchCalls[c] > 0 =>
            LET requested == request[c].args.limit
                orFive == IF requested.t = "undefined" \/ requested.n = 0
                          THEN 5 ELSE requested.n
            IN  /\ env[c].limit = IF orFive <= 10 THEN orFive ELSE 10
                /\ requested.t = "undefined" => env[c].limit = 5
                /\ (requested.t = "number" /\ requested.n \in 1..10) =>
                      env[c].limit = requested.n
                /\ (requested.t = "number" /\ requested.n > 10) =>
                      env[c].limit = 10

C7_Witness ==
    \E c \in DOMAIN pc :
        /\ pc[c] = "fetching"
        /\ request[c].args.limit = Num(11)
        /\ env[c].limit = 10

(* C8: when the fetched document is empty or holds no accepted block, the  *)
(* search returns the empty sequence.                                      *)
C8_NoMatchGivesEmpty ==
    \A c \in DOMAIN pc :
        (SearchSucceeded(c) /\ SelectSeq(response[c], Accepts) = <<>>) =>
            results[c] = <<>>

(* C9: with several calls in flight at once, resumed in any order, each    *)
(* call's result is what the call would return run alone on its own        *)
(* query, page and limit, all its extracted records come from the page of  *)
(* its own query, and none of them appears in the result of a call with    *)
(* another query.                                                          *)
C9_CallsIsolated ==
    \A c \in DOMAIN pc :
        SearchSucceeded(c) =>
            LET own == request[c].args
                page == response[c]
            IN  /\ page \in PagesFor(own.query.s)
                /\ Extracted(c) =
                      Records(SelectSeq(FirstBlocks(page, own.limit.n), Accepts))
                /\ \A i \in 1..Len(Extracted(c)) :
                      \E k \in {"1", "2", "3"} :
                          Extracted(c)[i] = RecordOf(Hit(own.query.s, k))
                /\ \A d \in DOMAIN pc :
                      (SearchSucceeded(d) /\ request[d].args.query # own.query) =>
                          \A i \in 1..Len(Extracted(c)), j \in 1..Len(Extracted(d)) :
                              Extracted(c)[i] # Extracted(d)[j]

C9_Witness ==
    /\ pc[1] = "fetching"
    /\ SearchSucceeded(2)
    /\ request[1].args.query # request[2].args.query
    /\ env[1].limit = 2
    /\ env[2].limit = 1
    /\ Len(Extracted(2)) = 1

(* C10: the extraction loop stops at the first block whose index is >= the *)
(* limit: every extracted record comes from a block at an index < limit,   *)
(* no block at an index >= limit is examined, and a limit <= 0 yields no   *)
(* extracted record.                                                       *)
C10_LoopStopsAtIndexLimit ==
    \A c \in DOMAIN pc :
        SearchSucceeded(c) =>
            LET limit == env[c].limit
                page == response[c]
            IN  /\ probe[c].examined = {i \in 0..(Len(page) - 1) : i < limit}
                /\ probe[c].pushedAt \subseteq probe[c].examined
                /\ Len(Extracted(c)) = Cardinality(probe[c].pushedAt)
                /\ Extracted(c) = Records(SelectSeq(FirstBlocks(page, limit), Accepts))
                /\ limit <= 0 => Extracted(c) = <<>>

C10_Witness ==
    \E c \in DOMAIN pc :
        /\ SearchSucceeded(c)
        /\ env[c].limit = 2
        /\ Len(response[c]) = 3
        /\ Accepts(response[c][3])
        /\ probe[c].examined = {0, 1}
        /\ probe[c].pushedAt = {1}

====
